---- MODULE Spec2Model ----
(***************************************************************************)
(* Model of memc_load_multithreading.py: main loops over the files; for    *)
(* each file process_file starts `workers` line_worker threads on one      *)
(* bounded queue, feeds the file's non-empty lines and one None per worker *)
(* into it, waits for the workers and decides the verdict from the tally.  *)
(***************************************************************************)
EXTENDS Integers, Sequences, FiniteSets, TLC

(* ------------------------------ bounds -------------------------------- *)
\* options.workers ranges over 1..MaxWorkers
MaxWorkers == 2
\* non-empty lines read from one file
MaxLines == 2
\* queue.Queue(maxsize=10000), scaled down so that a full queue is reachable
QueueMaxsize == 1
\* tallies drawn for the verdict computation checked on its own
MaxProcessed == 201
MaxErrors == 3

(* ------------------------- program constants -------------------------- *)
\* NORMAL_ERR_RATE = 0.01, kept as the exact fraction 1 / NORMAL_ERR_RATE_DEN
NORMAL_ERR_RATE_DEN == 100

\* A queue item is the close signal None or the seq-th line put for the file.
\* Nothing looks at the bytes of a queued line before a worker parses it, so
\* the item carries the line's position and its bytes are drawn when it is
\* dequeued.
None == [kind |-> "None", seq |-> 0]
QueuedLine(n) == [kind |-> "line", seq |-> n]

\* the local `line` of a worker that holds no line
NoLine == [utf8 |-> TRUE, parts |-> <<>>]

(* ---------------------------- input lines ----------------------------- *)
\* A raw line is kept as what decode and split("\t") see of it: whether its
\* bytes are valid UTF-8 and the tab-separated fields of the stripped text.
LineValidIdfa == [utf8 |-> TRUE, parts |-> <<"idfa", "X1", "55.55", "42.42", "10,20">>]
LineValidGaid == [utf8 |-> TRUE, parts |-> <<"gaid", "X2", "55.55", "42.42", "7423,424">>]
LineMixedApps == [utf8 |-> TRUE, parts |-> <<"idfa", "X1", "55.55", "42.42", "10,abc,30">>]
LineUnknownType == [utf8 |-> TRUE, parts |-> <<"unknown", "X1", "1.0", "2.0", "1,2">>]
LineFewFields == [utf8 |-> TRUE, parts |-> <<"idfa", "X1", "55.55", "42.42">>]
LineSixFields == [utf8 |-> TRUE, parts |-> <<"idfa", "X1", "55.55", "42.42", "10,20", "extra">>]
LineEmptyDevId == [utf8 |-> TRUE, parts |-> <<"idfa", "", "55.55", "42.42", "10,20">>]
LineEmptyDevType == [utf8 |-> TRUE, parts |-> <<"", "X1", "55.55", "42.42", "10,20">>]
LineBadLat == [utf8 |-> TRUE, parts |-> <<"idfa", "X1", "abc", "42.42", "10,20">>]
LineBadLon == [utf8 |-> TRUE, parts |-> <<"gaid", "X2", "55.55", "", "10,20">>]
LineNotUtf8 == [utf8 |-> FALSE, parts |-> <<>>]
LineSpacedApps == [utf8 |-> TRUE, parts |-> <<"gaid", "X2", "55.55", "42.42", "10, 30,abc">>]
LineSuperscriptApp == [utf8 |-> TRUE, parts |-> <<"idfa", "X1", "55.55", "42.42", "abc,sup2">>]

SampleLines ==
    { LineValidIdfa, LineValidGaid, LineMixedApps, LineUnknownType, LineFewFields,
      LineSixFields, LineEmptyDevId, LineEmptyDevType, LineBadLat, LineBadLon,
      LineNotUtf8, LineSpacedApps, LineSuperscriptApp }

\* the lines the files of the pipeline are made of: one of each way a line ends
FileLines == { LineValidGaid, LineMixedApps, LineUnknownType, LineFewFields, LineSixFields }

(* ------------------------ parse_appsinstalled ------------------------- *)
\* raw_apps.split(",")
SplitComma(s) ==
    CASE s = "10,20" -> <<"10", "20">>
      [] s = "7423,424" -> <<"7423", "424">>
      [] s = "10,abc,30" -> <<"10", "abc", "30">>
      [] s = "1,2" -> <<"1", "2">>
      [] s = "10, 30,abc" -> <<"10", " 30", "abc">>
      [] s = "abc,sup2" -> <<"abc", "sup2">>
      [] OTHER -> <<s>>

\* int(a.strip()) succeeds; "sup2" stands for the one-character string U+00B2
IntOk(a) == a \in {"10", "20", "30", " 30", "7423", "424", "1", "2"}

IntVal(a) ==
    CASE a = "10" -> 10
      [] a = "20" -> 20
      [] a \in {"30", " 30"} -> 30
      [] a = "7423" -> 7423
      [] a = "424" -> 424
      [] a = "1" -> 1
      [] a = "2" -> 2
      [] OTHER -> 0

\* a.isdigit(): true of U+00B2, false of a token with a blank in it
IsDigit(a) == a \in {"10", "20", "30", "7423", "424", "1", "2", "sup2"}

\* float(x) succeeds
FloatOk(x) == x \in {"55.55", "42.42", "1.0", "2.0"}

RECURSIVE AllIntOk(_)
AllIntOk(toks) == toks = <<>> \/ (IntOk(Head(toks)) /\ AllIntOk(Tail(toks)))

RECURSIVE IntList(_)
IntList(toks) == IF toks = <<>> THEN <<>> ELSE <<IntVal(Head(toks))>> \o IntList(Tail(toks))

RECURSIVE OnlyDigits(_)
OnlyDigits(toks) ==
    IF toks = <<>> THEN <<>>
    ELSE (IF IsDigit(Head(toks)) THEN <<Head(toks)>> ELSE <<>>) \o OnlyDigits(Tail(toks))

Raised == [tag |-> "raise", dev_type |-> "", dev_id |-> "", lat |-> "", lon |-> "", apps |-> <<>>]
NoRecord == [tag |-> "none", dev_type |-> "", dev_id |-> "", lat |-> "", lon |-> "", apps |-> <<>>]

AppsInstalled(dev_type, dev_id, lat, lon, apps) ==
    [tag |-> "rec", dev_type |-> dev_type, dev_id |-> dev_id, lat |-> lat, lon |-> lon,
     apps |-> apps]

\* The result of parse_appsinstalled(line): a record, None ("none"), or an
\* exception leaving the function ("raise").
parse_appsinstalled(line) ==
    IF ~line.utf8 THEN Raised                      \* line.decode('utf-8')
    ELSE IF Len(line.parts) < 5 THEN NoRecord
    ELSE IF Len(line.parts) > 5 THEN Raised        \* unpacking into five names
    ELSE
      LET dev_type == line.parts[1]
          dev_id == line.parts[2]
          lat == line.parts[3]
          lon == line.parts[4]
          toks == SplitComma(line.parts[5])
      IN  IF dev_type = "" \/ dev_id = "" THEN NoRecord
          ELSE IF ~AllIntOk(toks) /\ ~AllIntOk(OnlyDigits(toks)) THEN Raised
          ELSE IF ~(FloatOk(lat) /\ FloatOk(lon)) THEN NoRecord
          ELSE AppsInstalled(dev_type, dev_id, lat, lon,
                             IF AllIntOk(toks) THEN IntList(toks)
                             ELSE IntList(OnlyDigits(toks)))

(* ------------------------------- state -------------------------------- *)
VARIABLES
    options_dry,       \* options.dry
    options_workers,   \* options.workers
    earlier_files,     \* main has handed a file to process_file before the current one
    mpc,               \* where the main thread is in main / process_file
    line_queue,        \* the items of queue.Queue(maxsize), oldest first
    unfinished_tasks,  \* the queue's count of items put and not yet task_done
    nput,              \* lines put into the queue for the current file
    nsent,             \* close signals put into the queue for the current file
    read_failed,       \* the except branch of the read loop was taken
    stats,             \* stats['processed'], stats['errors']
    stats_lock,        \* holder of stats['lock'], 0 when free
    wpc,               \* where each line_worker is
    wline,             \* the line a worker holds
    wcount,            \* the counter the worker is about to increment
    wtmp,              \* the counter value read by +=
    wpresent,          \* the outcome of `memc_addr not in cls._instances`
    whandle,           \* the handle get_client returned
    wset,              \* how memc.set ended for the held line
    wwrite,            \* the memc.set call issued for the held line
    wops,              \* what has been done for the held line so far
    instances,         \* MemcachedConnectionPool._instances: address -> handle, 0 absent
    pool_lock,         \* holder of MemcachedConnectionPool._lock, 0 when free
    constructed,       \* memcache.Client objects constructed per address
    divisions,         \* error-rate divisions performed for the current file
    vlog,              \* the verdict logged for the current file
    renamed,           \* dot_rename calls for the current file
    ret                \* what process_file returned for the current file

cfgvars == <<options_dry, options_workers>>
qvars == <<line_queue, unfinished_tasks>>
pvars == <<nput, nsent, read_failed>>
svars == <<stats, stats_lock>>
wlocals == <<wline, wcount, wtmp, wpresent, whandle, wset, wwrite, wops>>
poolvars == <<instances, pool_lock, constructed>>
vvars == <<divisions, vlog, renamed, ret>>
vars == <<cfgvars, earlier_files, mpc, qvars, pvars, svars, wpc, wlocals, poolvars, vvars>>

Workers == 1..MaxWorkers
Running == 1..options_workers

NoAddr == ""

\* the endpoint defaults of the option parser
Addrs == {"127.0.0.1:33013", "127.0.0.1:33014", "127.0.0.1:33015", "127.0.0.1:33016"}
\* a lookup that falls back to the first endpoint for a device type that is no key
device_memc_default(dev_type) ==
    CASE dev_type = "idfa" -> "127.0.0.1:33013"
      [] dev_type = "gaid" -> "127.0.0.1:33014"
      [] dev_type = "adid" -> "127.0.0.1:33015"
      [] dev_type = "dvid" -> "127.0.0.1:33016"
      [] OTHER -> "127.0.0.1:33013"

\* a routing table whose gaid entry was given the idfa endpoint
device_memc_gaid_as_idfa(dev_type) ==
    CASE dev_type = "idfa" -> "127.0.0.1:33013"
      [] dev_type = "gaid" -> "127.0.0.1:33013"
      [] dev_type = "adid" -> "127.0.0.1:33015"
      [] dev_type = "dvid" -> "127.0.0.1:33016"
      [] OTHER -> NoAddr

\* the keys of the device_memc dictionary
RoutingKeys == {"idfa", "gaid", "adid", "dvid"}

\* device_memc.get(dev_type), None ("") for a device type that is no key
device_memc(dev_type) ==
    CASE dev_type = "idfa" -> "127.0.0.1:33013"
      [] dev_type = "gaid" -> "127.0.0.1:33014"
      [] dev_type = "adid" -> "127.0.0.1:33015"
      [] dev_type = "dvid" -> "127.0.0.1:33016"
      [] OTHER -> NoAddr

\* key = "%s:%s" % (dev_type, dev_id)
StoreKey(rec) == <<rec.dev_type, ":", rec.dev_id>>

\* no memc.set call yet
NoWrite == [addr |-> NoAddr, handle |-> 0, key |-> <<>>]

NoOps == [gc |-> 0, sets |-> 0, processed |-> 0, errors |-> 0]

FreshWorkers(n) == [w \in Workers |-> IF w <= n THEN "get" ELSE "unused"]

Init ==
    /\ options_dry \in BOOLEAN
    /\ options_workers \in 1..MaxWorkers
    /\ earlier_files = FALSE
    /\ mpc = "main"
    /\ line_queue = <<>>
    /\ unfinished_tasks = 0
    /\ nput = 0 /\ nsent = 0 /\ read_failed = FALSE
    /\ stats = [processed |-> 0, errors |-> 0]
    /\ stats_lock = 0
    /\ wpc = [w \in Workers |-> "unused"]
    /\ wline = [w \in Workers |-> NoLine]
    /\ wcount = [w \in Workers |-> ""]
    /\ wtmp = [w \in Workers |-> 0]
    /\ wpresent = [w \in Workers |-> FALSE]
    /\ whandle = [w \in Workers |-> 0]
    /\ wset = [w \in Workers |-> ""]
    /\ wwrite = [w \in Workers |-> NoWrite]
    /\ wops = [w \in Workers |-> NoOps]
    /\ instances = [a \in Addrs |-> 0]
    /\ pool_lock = 0
    /\ constructed = [a \in Addrs |-> 0]
    /\ divisions = 0 /\ vlog = "none" /\ renamed = 0 /\ ret = "none"

(* --------------------------- process_file ----------------------------- *)
\* main hands the next file of glob.iglob, of any number of files, to
\* process_file: a fresh queue and tally, and options.workers line_worker
\* tasks submitted to the executor.
process_file_start ==
    /\ mpc \in {"main", "returned"}
    /\ earlier_files' = (mpc = "returned")
    /\ mpc' = "read"
    /\ line_queue' = <<>>
    /\ unfinished_tasks' = 0
    /\ nput' = 0 /\ nsent' = 0 /\ read_failed' = FALSE
    /\ stats' = [processed |-> 0, errors |-> 0]
    /\ stats_lock' = 0
    /\ wpc' = FreshWorkers(options_workers)
    /\ wline' = [w \in Workers |-> NoLine]
    /\ wcount' = [w \in Workers |-> ""]
    /\ wtmp' = [w \in Workers |-> 0]
    /\ wpresent' = [w \in Workers |-> FALSE]
    /\ whandle' = [w \in Workers |-> 0]
    /\ wset' = [w \in Workers |-> ""]
    /\ wwrite' = [w \in Workers |-> NoWrite]
    /\ wops' = [w \in Workers |-> NoOps]
    /\ divisions' = 0 /\ vlog' = "none" /\ renamed' = 0 /\ ret' = "none"
    /\ UNCHANGED <<cfgvars, poolvars>>

\* a put that never blocks, as on a queue built without maxsize
QueueUnbounded == TRUE

\* line_queue.put(item) returns only when the queue holds fewer than maxsize items
QueueHasRoom == Len(line_queue) < QueueMaxsize

\* a read loop that is still putting lines while the close signals are put
read_put_line_after_close ==
    /\ mpc \in {"read", "sentinels"}
    /\ nput < MaxLines
    /\ QueueHasRoom
    /\ line_queue' = Append(line_queue, QueuedLine(nput + 1))
    /\ unfinished_tasks' = unfinished_tasks + 1
    /\ nput' = nput + 1
    /\ UNCHANGED <<cfgvars, earlier_files, mpc, nsent, read_failed, svars, wpc, wlocals,
                   poolvars, vvars>>

\* for line in fd: a non-empty stripped line is put into the queue
read_put_line ==
    /\ mpc = "read"
    /\ nput < MaxLines
    /\ QueueHasRoom
    /\ line_queue' = Append(line_queue, QueuedLine(nput + 1))
    /\ unfinished_tasks' = unfinished_tasks + 1
    /\ nput' = nput + 1
    /\ UNCHANGED <<cfgvars, earlier_files, mpc, nsent, read_failed, svars, wpc, wlocals,
                   poolvars, vvars>>

\* for line in fd: a line that is empty once stripped is skipped, which
\* changes nothing but the position in the file
read_blank_line ==
    /\ mpc = "read"
    /\ UNCHANGED vars

\* the file is exhausted: the read loop ends
read_eof ==
    /\ mpc = "read"
    /\ mpc' = "sentinels"
    /\ UNCHANGED <<cfgvars, earlier_files, qvars, pvars, svars, wpc, wlocals, poolvars, vvars>>

\* gzip.open or a read raises: the error is logged and the read loop ends
read_error ==
    /\ mpc = "read"
    /\ read_failed' = TRUE
    /\ mpc' = "sentinels"
    /\ UNCHANGED <<cfgvars, earlier_files, qvars, nput, nsent, svars, wpc, wlocals,
                   poolvars, vvars>>

\* for _ in range(options.workers): line_queue.put(None)
put_sentinel ==
    /\ mpc = "sentinels"
    /\ nsent < options_workers
    /\ QueueHasRoom
    /\ line_queue' = Append(line_queue, None)
    /\ unfinished_tasks' = unfinished_tasks + 1
    /\ nsent' = nsent + 1
    /\ mpc' = IF nsent + 1 = options_workers THEN "wait" ELSE "sentinels"
    /\ UNCHANGED <<cfgvars, earlier_files, nput, read_failed, svars, wpc, wlocals,
                   poolvars, vvars>>

\* a process_file that does not wait for its futures
WorkerNotAwaited(w) == TRUE

\* future.result() returns or raises: the worker's thread has ended
WorkerEnded(w) == wpc[w] \in {"stopped", "timed_out", "raised"}

\* for future in futures: future.result(), then the executor's shutdown(wait=True):
\* returns once every worker has ended, and re-raises a worker's exception
wait_futures ==
    /\ mpc = "wait"
    /\ \A w \in Running : WorkerEnded(w)
    /\ mpc' = IF \E w \in Running : wpc[w] = "raised" THEN "raised" ELSE "verdict"
    /\ UNCHANGED <<cfgvars, earlier_files, qvars, pvars, svars, wpc, wlocals, poolvars, vvars>>

\* a zero-volume test on the lines counted instead of the lines processed
NothingCounted(s) == s.processed + s.errors = 0

\* if not stats['processed']
NothingProcessed(s) == s.processed = 0

\* a threshold test that accepts a rate equal to the threshold
ErrRateBelowOrEqual(errors, processed) == errors * NORMAL_ERR_RATE_DEN <= processed

\* float(errors) / processed < NORMAL_ERR_RATE, as the exact comparison of fractions
ErrRateBelow(errors, processed) == errors * NORMAL_ERR_RATE_DEN < processed

\* the end of process_file: the verdict, dot_rename (os.rename is taken to
\* succeed) and return True
process_file_verdict ==
    /\ mpc = "verdict"
    /\ IF NothingProcessed(stats)
       THEN /\ divisions' = divisions
            /\ vlog' = vlog
       ELSE /\ divisions' = divisions + 1
            /\ vlog' = IF ErrRateBelow(stats.errors, stats.processed)
                       THEN "accept" ELSE "reject"
    /\ renamed' = renamed + 1
    /\ ret' = "True"
    /\ mpc' = "returned"
    /\ UNCHANGED <<cfgvars, earlier_files, qvars, pvars, svars, wpc, wlocals, poolvars>>

\* main's loop is over: the run ends normally
main_done ==
    /\ mpc \in {"main", "returned"}
    /\ mpc' = "done"
    /\ UNCHANGED <<cfgvars, earlier_files, qvars, pvars, svars, wpc, wlocals, poolvars, vvars>>

\* an exception left process_file and main: logged, sys.exit(1)
main_failed ==
    /\ mpc = "raised"
    /\ mpc' = "failed"
    /\ UNCHANGED <<cfgvars, earlier_files, qvars, pvars, svars, wpc, wlocals, poolvars, vvars>>

(* ---------------------------- line_worker ----------------------------- *)
\* an insert that ignores dry_run
UseStoreAlways(dry) == TRUE

\* insert_appsinstalled contacts the store only when dry_run is off
UseStore(dry) == ~dry

\* what insert_appsinstalled returns for each way memc.set can end: the value
\* set returns is not looked at, only an exception gives False
InsertOk(res) == res # "raise"

\* a get_client that does not wait for the lock
PoolLockIgnored == TRUE

\* with cls._lock / with stats['lock']: entered only when the lock is free
PoolLockFree == pool_lock = 0
StatsLockFree == stats_lock = 0

\* the worker's next step for the line it dequeued, from parsing and routing;
\* building and serializing the UserApps message is taken not to raise
AfterParse(line, dry) ==
    LET rec == parse_appsinstalled(line) IN
    IF rec.tag = "raise" THEN [pc |-> "raised", count |-> ""]
    ELSE IF rec.tag = "none" THEN [pc |-> "count", count |-> "errors"]
    ELSE IF device_memc(rec.dev_type) = NoAddr THEN [pc |-> "count", count |-> "errors"]
    ELSE IF UseStore(dry) THEN [pc |-> "get_client", count |-> ""]
    ELSE [pc |-> "count", count |-> "processed"]

\* line = line_queue.get(timeout=1) returns an item: None stops the worker; a
\* line is parsed and routed (an exception of the parser ends the worker)
worker_get(w) ==
    /\ wpc[w] = "get"
    /\ line_queue # <<>>
    /\ line_queue' = Tail(line_queue)
    /\ IF Head(line_queue) = None
       THEN /\ unfinished_tasks' = unfinished_tasks - 1
            /\ wpc' = [wpc EXCEPT ![w] = "stopped"]
            /\ UNCHANGED <<wline, wcount, wops>>
       ELSE \E line \in FileLines :
            LET nxt == AfterParse(line, options_dry) IN
            /\ unfinished_tasks' = unfinished_tasks
            /\ wpc' = [wpc EXCEPT ![w] = nxt.pc]
            /\ wline' = [wline EXCEPT ![w] = line]
            /\ wcount' = [wcount EXCEPT ![w] = nxt.count]
            /\ wops' = [wops EXCEPT ![w] = NoOps]
    /\ UNCHANGED <<cfgvars, earlier_files, mpc, pvars, svars, wtmp, wpresent, whandle, wset,
                   wwrite, poolvars, vvars>>

\* line_queue.get(timeout=1) raises queue.Empty: the queue stayed empty for
\* one second, whatever the producer was doing meanwhile
worker_timeout(w) ==
    /\ wpc[w] = "get"
    /\ line_queue = <<>>
    /\ wpc' = [wpc EXCEPT ![w] = "timed_out"]
    /\ UNCHANGED <<cfgvars, earlier_files, mpc, qvars, pvars, svars, wlocals, poolvars, vvars>>

WorkerAddr(w) == device_memc(parse_appsinstalled(wline[w]).dev_type)

\* get_client: the lock is taken and `memc_addr not in cls._instances` evaluated
get_client_enter(w) ==
    /\ wpc[w] = "get_client"
    /\ PoolLockFree
    /\ pool_lock' = w
    /\ wpresent' = [wpresent EXCEPT ![w] = instances[WorkerAddr(w)] # 0]
    /\ wops' = [wops EXCEPT ![w].gc = @ + 1]
    /\ wpc' = [wpc EXCEPT ![w] = "pool_locked"]
    /\ UNCHANGED <<cfgvars, earlier_files, mpc, qvars, pvars, svars, wline, wcount, wtmp,
                   whandle, wset, wwrite, instances, constructed, vvars>>

\* memc.set(key, packed): the client returns a true value, returns a false
\* value (the write failed) or raises
SetResults == {"ok", "fail", "raise"}

\* a store write that is issued a second time when the first did not succeed
SetCallsWithRetry(res) == IF res = "ok" THEN 1 ELSE 2

\* the memc.set calls insert_appsinstalled makes for a line whose set ends as
\* res: the one call of line 50, in no loop
SetCalls(res) == 1

\* get_client: a handle is constructed and cached if none was seen, the cached
\* handle is returned and the lock released; then memc.set(key, packed) on that
\* handle, which touches nothing the other threads see, and the return of
\* insert_appsinstalled
get_client_return(w) ==
    /\ wpc[w] = "pool_locked"
    /\ LET a == WorkerAddr(w) IN
       /\ instances' = IF wpresent[w] THEN instances
                       ELSE [instances EXCEPT ![a] = constructed[a] + 1]
       /\ constructed' = IF wpresent[w] THEN constructed
                         ELSE [constructed EXCEPT ![a] = @ + 1]
       /\ whandle' = [whandle EXCEPT ![w] = instances'[a]]
       /\ wwrite' = [wwrite EXCEPT ![w] =
                        [addr |-> a, handle |-> instances'[a],
                         key |-> StoreKey(parse_appsinstalled(wline[w]))]]
    /\ pool_lock' = 0
    /\ \E res \in SetResults :
          /\ wset' = [wset EXCEPT ![w] = res]
          /\ wcount' = [wcount EXCEPT ![w] = IF InsertOk(res) THEN "processed" ELSE "errors"]
          /\ wops' = [wops EXCEPT ![w].sets = @ + SetCalls(res)]
    /\ wpc' = [wpc EXCEPT ![w] = "count"]
    /\ UNCHANGED <<cfgvars, earlier_files, mpc, qvars, pvars, svars, wline, wtmp, wpresent,
                   vvars>>

\* with stats['lock']: the lock is taken and the counter read
count_enter(w) ==
    /\ wpc[w] = "count"
    /\ StatsLockFree
    /\ stats_lock' = w
    /\ wtmp' = [wtmp EXCEPT ![w] = stats[wcount[w]]]
    /\ wpc' = [wpc EXCEPT ![w] = "store"]
    /\ UNCHANGED <<cfgvars, earlier_files, mpc, qvars, pvars, stats, wline, wcount, wpresent,
                   whandle, wset, wwrite, wops, poolvars, vvars>>

\* stats[...] += 1: the counter is written back and the lock released; then
\* line_queue.task_done() and back to the top of the loop, where the locals of
\* this line are dead
count_store(w) ==
    /\ wpc[w] = "store"
    /\ stats' = [stats EXCEPT ![wcount[w]] = wtmp[w] + 1]
    /\ stats_lock' = 0
    /\ unfinished_tasks' = unfinished_tasks - 1
    /\ wpc' = [wpc EXCEPT ![w] = "get"]
    /\ wline' = [wline EXCEPT ![w] = NoLine]
    /\ wcount' = [wcount EXCEPT ![w] = ""]
    /\ wtmp' = [wtmp EXCEPT ![w] = 0]
    /\ wpresent' = [wpresent EXCEPT ![w] = FALSE]
    /\ whandle' = [whandle EXCEPT ![w] = 0]
    /\ wset' = [wset EXCEPT ![w] = ""]
    /\ wwrite' = [wwrite EXCEPT ![w] = NoWrite]
    /\ wops' = [wops EXCEPT ![w] = NoOps]
    /\ UNCHANGED <<cfgvars, earlier_files, mpc, line_queue, pvars, poolvars, vvars>>

line_worker(w) ==
    \/ worker_get(w)
    \/ worker_timeout(w)
    \/ get_client_enter(w)
    \/ get_client_return(w)
    \/ count_enter(w)
    \/ count_store(w)

Producer ==
    \/ read_put_line
    \/ read_blank_line
    \/ read_eof
    \/ read_error
    \/ put_sentinel

Main ==
    \/ process_file_start
    \/ wait_futures
    \/ process_file_verdict
    \/ main_done
    \/ main_failed

Next ==
    \/ Main
    \/ Producer
    \/ \E w \in Workers : line_worker(w)

Spec == Init /\ [][Next]_vars

(* --------------- the verdict of process_file on its own --------------- *)
\* process_file at line 148 for a file whose workers have all stopped on their
\* close signal with the tally (processed, errors)
VerdictInit ==
    /\ options_dry = TRUE
    /\ options_workers = 1
    /\ earlier_files \in BOOLEAN
    /\ mpc = "verdict"
    /\ line_queue = <<>>
    /\ unfinished_tasks = 0
    /\ \E p \in 0..MaxProcessed, e \in 0..MaxErrors :
          /\ stats = [processed |-> p, errors |-> e]
          /\ nput = p + e
    /\ nsent = 1 /\ read_failed = FALSE
    /\ stats_lock = 0
    /\ wpc = [w \in Workers |-> IF w = 1 THEN "stopped" ELSE "unused"]
    /\ wline = [w \in Workers |-> NoLine]
    /\ wcount = [w \in Workers |-> ""]
    /\ wtmp = [w \in Workers |-> 0]
    /\ wpresent = [w \in Workers |-> FALSE]
    /\ whandle = [w \in Workers |-> 0]
    /\ wset = [w \in Workers |-> ""]
    /\ wwrite = [w \in Workers |-> NoWrite]
    /\ wops = [w \in Workers |-> NoOps]
    /\ instances = [a \in Addrs |-> 0]
    /\ pool_lock = 0
    /\ constructed = [a \in Addrs |-> 0]
    /\ divisions = 0 /\ vlog = "none" /\ renamed = 0 /\ ret = "none"

VerdictNext == process_file_verdict \/ main_done

VerdictSpec == VerdictInit /\ [][VerdictNext]_vars

(* ------------- one line of any content in one line_worker ------------ *)
\* process_file with one worker at line 142 for a file of one line: the file
\* is read to its end, and the worker has dequeued the line, of any of the
\* sample contents, and has parsed and routed it
LineInit ==
    /\ options_dry \in BOOLEAN
    /\ options_workers = 1
    /\ earlier_files = FALSE
    /\ mpc = "sentinels"
    /\ line_queue = <<>>
    /\ unfinished_tasks = 1
    /\ nput = 1 /\ nsent = 0 /\ read_failed = FALSE
    /\ stats = [processed |-> 0, errors |-> 0]
    /\ stats_lock = 0
    /\ \E line \in SampleLines :
          LET nxt == AfterParse(line, options_dry) IN
          /\ wpc = [w \in Workers |-> IF w = 1 THEN nxt.pc ELSE "unused"]
          /\ wline = [w \in Workers |-> IF w = 1 THEN line ELSE NoLine]
          /\ wcount = [w \in Workers |-> IF w = 1 THEN nxt.count ELSE ""]
    /\ wtmp = [w \in Workers |-> 0]
    /\ wpresent = [w \in Workers |-> FALSE]
    /\ whandle = [w \in Workers |-> 0]
    /\ wset = [w \in Workers |-> ""]
    /\ wwrite = [w \in Workers |-> NoWrite]
    /\ wops = [w \in Workers |-> NoOps]
    /\ instances = [a \in Addrs |-> 0]
    /\ pool_lock = 0
    /\ constructed = [a \in Addrs |-> 0]
    /\ divisions = 0 /\ vlog = "none" /\ renamed = 0 /\ ret = "none"

LineNext ==
    \/ line_worker(1)
    \/ put_sentinel
    \/ wait_futures
    \/ process_file_verdict
    \/ main_done
    \/ main_failed

LineSpec == LineInit /\ [][LineNext]_vars

(* ------------------------------ claims -------------------------------- *)
\* process_file has finished for the current file, by return or by exception
Finished == mpc \in {"returned", "raised"}

Holds(w) == wline[w] # NoLine
ParseOf == [line \in SampleLines \cup {NoLine} |-> parse_appsinstalled(line)]
Parsed(w) == ParseOf[wline[w]]

\* C1: when process_file has finished for a file, processed + errors equals
\* the number of non-empty lines the producer put into the queue for it.
C1_TallyCountsEveryLine ==
    Finished => stats.processed + stats.errors = nput

\* C2: every call of process_file completes: while it is feeding the queue or
\* waiting for its workers, some thread can always take a step, so the
\* producer is never left blocked on a full queue with no worker to empty it.
C2_ProcessFileCompletes ==
    mpc \in {"read", "sentinels", "wait"} => ENABLED Next

\* C3: a line that fails to parse, whatever its content, is absorbed by the
\* worker: it goes on to count one error for it and no failure reaches
\* process_file.
C3_ParseFailureAbsorbed ==
    /\ \A w \in Workers :
          Holds(w) /\ Parsed(w).tag # "rec"
             => wpc[w] \in {"count", "store"} /\ wcount[w] = "errors"
    /\ mpc \notin {"raised", "failed"}

\* C4: with dry-run off, a line whose memc.set failed, by a false result or by
\* an exception, is counted in errors and not in processed.
C4_FailedSetCountsAsError ==
    \A w \in Workers :
       wset[w] \in {"fail", "raise"}
          => wpc[w] \in {"count", "store"} /\ wcount[w] = "errors"

\* C5: for every file handed to process_file the completion signal dot_rename
\* is issued exactly once: never twice, and once by the time process_file has
\* finished.
C5_RenamedExactlyOnce ==
    /\ renamed <= 1
    /\ Finished => renamed = 1

\* C6: with processed > 0, process_file logs acceptance if and only if
\* 100 * errors < processed, and rejection otherwise; errors = 1 of
\* processed = 199 is accepted, errors = 3 of processed = 100 is rejected.
C6_AcceptIffBelowThreshold ==
    mpc = "returned" /\ stats.processed > 0
       => /\ vlog \in {"accept", "reject"}
          /\ vlog = "accept" <=> 100 * stats.errors < stats.processed
          /\ stats.errors = 1 /\ stats.processed = 199 => vlog = "accept"
          /\ stats.errors = 3 /\ stats.processed = 100 => vlog = "reject"

C6_Witness ==
    /\ mpc = "returned"
    /\ stats = [processed |-> 199, errors |-> 1]
    /\ vlog = "accept"
    /\ divisions = 1

\* C7: with processed = 0 at the end of a file, process_file divides nothing,
\* logs neither acceptance nor rejection, renames the file and returns True.
C7_ZeroProcessedTriviallyComplete ==
    mpc = "returned" /\ stats.processed = 0
       => divisions = 0 /\ vlog = "none" /\ renamed = 1 /\ ret = "True"

C7_Witness ==
    /\ mpc = "returned"
    /\ stats.processed = 0
    /\ stats.errors = MaxLines
    /\ renamed = 1

UnknownType(w) ==
    Holds(w) /\ Parsed(w).tag = "rec" /\ Parsed(w).dev_type \notin RoutingKeys

\* C8: for a parsed line whose device type is no key of the routing table the
\* worker neither calls get_client nor memc.set, and the step that counts the
\* line adds one to errors and leaves processed alone.
C8_UnknownTypeIsErrorWithoutWrite ==
    /\ [](\A w \in Workers :
            UnknownType(w)
               => /\ wpc[w] \in {"count", "store"}
                  /\ wcount[w] = "errors"
                  /\ wops[w].gc = 0 /\ wops[w].sets = 0 /\ whandle[w] = 0)
    /\ [][\A w \in Workers :
            wpc[w] = "store" /\ wpc'[w] # "store" /\ UnknownType(w)
               => /\ stats'.errors = stats.errors + 1
                  /\ stats'.processed = stats.processed]_vars

C8_Witness ==
    \E w \in Workers :
       /\ UnknownType(w)
       /\ wpc[w] = "store"
       /\ ~options_dry
       /\ \E v \in Workers : v # w /\ whandle[v] # 0

KnownType(w) ==
    Holds(w) /\ Parsed(w).tag = "rec" /\ Parsed(w).dev_type \in RoutingKeys

\* C9: in dry-run mode the pool cache never changes, no handle is constructed
\* or fetched, no set is issued, and every line a worker handles that parses
\* and routes to a known device type is counted as processed.
C9_DryRunContactsNoStore ==
    /\ [](options_dry
            => /\ \A a \in Addrs : instances[a] = 0 /\ constructed[a] = 0
               /\ pool_lock = 0
               /\ \A w \in Workers :
                     /\ wops[w].gc = 0 /\ wops[w].sets = 0
                     /\ whandle[w] = 0 /\ wset[w] = ""
                     /\ KnownType(w)
                          => wpc[w] \in {"count", "store"} /\ wcount[w] = "processed")
    /\ [][options_dry
            => \A w \in Workers :
                  wpc[w] = "store" /\ wpc'[w] # "store" /\ KnownType(w)
                     => /\ stats'.processed = stats.processed + 1
                        /\ stats'.errors = stats.errors]_vars

C9_Witness ==
    /\ options_dry
    /\ mpc = "returned"
    /\ earlier_files
    /\ stats.processed = MaxLines

\* C10: at most one handle is ever constructed per endpoint address, a cached
\* handle is never removed or replaced (the cache holds the first handle
\* constructed for the address from then on), and every get_client call
\* returns the cached handle of its address.
C10_OneHandlePerAddress ==
    /\ \A a \in Addrs :
          /\ constructed[a] <= 1
          /\ instances[a] = constructed[a]
    /\ \A w \in Workers :
          whandle[w] # 0 => whandle[w] = instances[WorkerAddr(w)]

C10_Witness ==
    /\ earlier_files
    /\ \E v, w \in Workers :
          /\ v # w
          /\ whandle[v] # 0 /\ whandle[w] = whandle[v]
          /\ WorkerAddr(v) = WorkerAddr(w)
          /\ wpresent[v] /\ wpresent[w]

\* C11: the producer pushes one close signal per worker, every worker that has
\* left its loop left it by dequeuing a close signal, and when process_file
\* has finished no close signal is left in the queue.
C11_EveryWorkerTakesOneCloseSignal ==
    /\ nsent <= options_workers
    /\ mpc \in {"wait", "verdict", "returned"} => nsent = options_workers
    /\ \A w \in Running : WorkerEnded(w) => wpc[w] = "stopped"
    /\ Finished => \A i \in 1..Len(line_queue) : line_queue[i] # None

\* the data lines waiting in the queue, head first
QueuedLines == SelectSeq(line_queue, LAMBDA item : item.kind = "line")

\* the number of workers that hold a dequeued line
HeldLines == Cardinality({w \in Workers : Holds(w)})

EndpointOf ==
    [t \in RoutingKeys |->
        CASE t = "idfa" -> "127.0.0.1:33013"
          [] t = "gaid" -> "127.0.0.1:33014"
          [] t = "adid" -> "127.0.0.1:33015"
          [] t = "dvid" -> "127.0.0.1:33016"]

\* C13: every memc.set a worker issues for a line goes to the handle cached for
\* the endpoint address of that line's device type, under the key made of that
\* line's device type, ":" and device id.
C13_WriteGoesToRoutedEndpointUnderOwnKey ==
    \A w \in Workers :
       wops[w].sets > 0
          => /\ KnownType(w)
             /\ wwrite[w].addr = EndpointOf[wline[w].parts[1]]
             /\ wwrite[w].handle # 0
             /\ wwrite[w].handle = instances[EndpointOf[wline[w].parts[1]]]
             /\ wwrite[w].key = <<wline[w].parts[1], ":", wline[w].parts[2]>>

\* two workers have written lines of different device types, each to the
\* handle of its own endpoint
C13_Witness ==
    \E v, w \in Workers :
       /\ wline[v] = LineValidGaid /\ wops[v].sets = 1
       /\ wwrite[v] = [addr |-> "127.0.0.1:33014", handle |-> 1,
                       key |-> <<"gaid", ":", "X2">>]
       /\ wline[w] = LineMixedApps /\ wops[w].sets = 1
       /\ wwrite[w].addr = "127.0.0.1:33013"

\* C14: a failure of gzip.open or of a read is not fatal: when process_file has
\* finished after one, the lines put before the failure are all counted, one
\* close signal per worker was put, every worker has ended, the file was
\* renamed, and process_file has returned so that main takes the next file.
C14_ReadFailureIsNotFatal ==
    read_failed /\ Finished
       => /\ stats.processed + stats.errors = nput
          /\ nsent = options_workers
          /\ \A w \in Running : WorkerEnded(w)
          /\ renamed = 1
          /\ mpc = "returned" /\ ENABLED process_file_start

\* a token made of the digits 0 to 9 only
PurelyNumeric(a) == a \in {"10", "20", "30", "7423", "424", "1", "2"}

\* a line of five fields with non-empty identifiers, parsable lat and lon, a
\* routable device type and an apps field of which some element is no integer
MixedApps(line) ==
    /\ line.utf8
    /\ Len(line.parts) = 5
    /\ line.parts[1] \in RoutingKeys
    /\ line.parts[2] # ""
    /\ FloatOk(line.parts[3]) /\ FloatOk(line.parts[4])
    /\ ~AllIntOk(SplitComma(line.parts[5]))

\* C15: a line with mixed apps is parsed to a record that keeps exactly the
\* purely numeric elements in their order ("10,abc,30" gives 10, 30), and when
\* the worker counts it, with the write succeeded or in dry-run mode, it counts
\* it as processed.
C15_MixedAppsKeptAndProcessed ==
    \A w \in Workers :
       Holds(w) /\ MixedApps(wline[w])
          => /\ wpc[w] # "raised"
             /\ Parsed(w).tag = "rec"
             /\ Parsed(w).apps
                   = IntList(SelectSeq(SplitComma(wline[w].parts[5]), PurelyNumeric))
             /\ wline[w] = LineMixedApps => Parsed(w).apps = <<10, 30>>
             /\ wpc[w] \in {"count", "store"} /\ (options_dry \/ wset[w] = "ok")
                   => wcount[w] = "processed"

\* C16: every line a worker dequeues is counted: the worker holding it goes on
\* to the step that adds exactly one to exactly one of processed and errors and
\* leaves the other alone; dequeuing a close signal changes neither counter;
\* and a counter only changes in a step of the worker that holds the tally lock.
C16_OneIncrementPerLineUnderLock ==
    /\ [](\A w \in Workers : Holds(w) => wpc[w] # "raised")
    /\ [][\A w \in Workers :
             /\ (Holds(w) /\ wline'[w] = NoLine /\ mpc' = mpc)
                   => \/ /\ stats'.processed = stats.processed + 1
                         /\ stats'.errors = stats.errors
                      \/ /\ stats'.errors = stats.errors + 1
                         /\ stats'.processed = stats.processed
             /\ (wpc[w] = "get" /\ wpc'[w] = "stopped") => stats' = stats]_vars
    /\ [][(stats' # stats /\ mpc' = mpc)
             => \E w \in Workers : stats_lock = w /\ wpc[w] = "store"]_vars

\* C17: a worker leaves its loop on an empty queue only when nothing more is
\* expected: whenever a worker has ended without dequeuing a close signal, the
\* producer has put all its lines and all its close signals.
C17_WorkerStopsOnlyWhenNothingExpected ==
    \A w \in Workers :
       wpc[w] \in {"timed_out", "raised"} => mpc \notin {"read", "sentinels"}

\* C18: memc.set is issued at most once for a dequeued line, also when it
\* fails; with dry-run off a line that parses and routes has had exactly one
\* set issued when the worker counts it, and each line put is held by at most
\* one worker, so the calls of a line are the calls of the worker holding it.
C18_SetIssuedOnceNeverRetried ==
    /\ \A w \in Workers :
          /\ wops[w].sets <= 1
          /\ wset[w] \in {"fail", "raise"} => wops[w].sets = 1
          /\ KnownType(w) /\ ~options_dry /\ wpc[w] \in {"count", "store"}
                => wops[w].sets = 1
          /\ wpc[w] \in {"stopped", "timed_out", "get", "unused"} => wops[w].sets = 0
    /\ stats.processed + stats.errors + HeldLines + Len(QueuedLines) = nput

\* a worker is about to count a line whose one set call failed
C18_Witness ==
    \E w \in Workers :
       /\ ~options_dry
       /\ KnownType(w)
       /\ wpc[w] = "store"
       /\ wset[w] = "fail"
       /\ wops[w].sets = 1

C20_VerdictReadsFinalTally ==
    /\ [](mpc \in {"verdict", "returned"}
             => /\ \A w \in Running : wpc[w] \in {"stopped", "timed_out", "raised"}
                /\ stats_lock = 0)
    /\ [](mpc = "returned"
             => /\ vlog = "none" <=> stats.processed = 0
                /\ vlog = "accept" <=> (stats.processed > 0
                                        /\ 100 * stats.errors < stats.processed))
    /\ [][(mpc \in {"verdict", "returned"} /\ mpc' # "read") => stats' = stats]_vars
    /\ [][(mpc # "read" /\ mpc' = "read")
             => stats' = [processed |-> 0, errors |-> 0] /\ stats_lock' = 0]_vars

\* the verdict of a later file is due with both of its lines counted
C20_Witness ==
    /\ earlier_files
    /\ mpc = "verdict"
    /\ nput = MaxLines
    /\ stats.processed + stats.errors = nput
    /\ stats.processed >= 1

=============================================================================
